---- MODULE Spec2Model ----
(***************************************************************************)
(* Incremental market-data synchronization engine of ai-hedge-fund-crypto. *)
(*                                                                         *)
(*  - db_manager.py: parse_schema / ensure_schema / main, the schema       *)
(*    synchronizer that reconciles init.sql with the live catalog;         *)
(*  - src/utils/database.py: get_connection, insert_price_data;            *)
(*  - src/utils/binance_data_provider.py: get_historical_klines, the       *)
(*    read-through cache over price_data;                                  *)
(*  - full_market_collector.py: get_last_open_time, collect_incremental    *)
(*    and the scheduler loop of main.                                      *)
(***************************************************************************)
EXTENDS Integers, Sequences, FiniteSets, TLC

VARIABLES
  \* ---- db_manager.py and init.sql ----
  init_sql,       \* layout of the schema file SCHEMA_PATH (see Text)
  catalog,        \* committed catalog of the database: table -> (column -> type)
  session,        \* catalog as seen inside the open transaction of conn
  pc,             \* position of db_manager.main
  cursor_factory, \* cursor factory of the connection handed to ensure_schema
  schema,         \* parse_schema's result, a sequence of <<table, info>> in dict order
  idx,            \* index into schema of the next table of the for loop
  stmts,          \* DDL statements sent by the current (or last) pass, in order
  exc,            \* exception raised by the current (or last) pass, "none" when none
  outcome,        \* of the last pass over this file: "none", "running", "ok", "error"
  repeatRun,      \* the pass follows a committed pass over the same, unedited file
  printed,        \* what the current (or last) run of db_manager.main wrote, in order
  \* ---- price_data, the provider and the collector ----
  store,          \* committed rows of price_data: <<symbol, interval, open_time>> -> count
  now,            \* the clock, in ticks
  connTx,         \* transaction status of provider.conn: "idle", "intrans", "inerror"
  call,           \* the call that has just run and not yet returned, <<>> when none
  res,            \* how the last call on the provider or the store ended
  ret,            \* open_times of the rows the last call returned, in order
  returned,       \* what the last insert_price_data call returned, None when none ran
  calledUpstream, \* the last call sent a request to the upstream client
  cpc,            \* position of full_market_collector.main
  symbols,        \* the list get_all_symbols returned to main
  pair,           \* <<index into symbols, index into intervals>> of the next pair
  lastRequest,    \* arguments of the last call collect_incremental made on the provider
  utcOffset,      \* offset of the host's local time from UTC, in ticks
  listed          \* what the exchange answers to get_exchange_info() at present

schemaVars ==
  <<init_sql, catalog, session, pc, cursor_factory, schema, idx, stmts, exc,
    outcome, repeatRun, printed>>

ingestVars ==
  <<store, now, connTx, call, res, ret, calledUpstream, cpc, symbols, pair,
    lastRequest, utcOffset, listed, returned>>

vars == <<schemaVars, ingestVars>>

----------------------------------------------------------------------------
(* Bounds *)

\* Largest number of lines in the body of one CREATE TABLE block.
MaxLines == 2

\* Last tick of the clock.
MaxTime == 4

\* Largest number of rows price_data holds.
MaxRows == 2

\* Ticks in one unit of the resolution of strftime("%Y-%m-%d %H:%M:%S"), a second
\* in the source.  Time is scaled: the shortest interval spans one such unit; all
\* that is used is that every interval is a whole number of units.
TicksPerSecond == 2

----------------------------------------------------------------------------
(* Schema text.  A text is a sequence of blocks                            *)
(*   CREATE TABLE IF NOT EXISTS <table> ( <body> );                        *)
(* a body is a sequence of lines and a line is the sequence of its         *)
(* comma-separated fragments (a trailing comma is not represented: it is   *)
(* what line.rstrip(',') removes).                                         *)

PriceDataFragments ==
  << "open_time TIMESTAMP", "volume NUMERIC",
     "PRIMARY KEY (open_time)", "FOREIGN KEY (volume) REFERENCES trades(id)" >>

TradesFragments == << "id SERIAL" >>

\* line.split()[0] of a line that starts with the fragment.
FirstWord(frag) ==
  CASE frag = "open_time TIMESTAMP" -> "open_time"
    [] frag = "volume NUMERIC" -> "volume"
    [] frag = "id SERIAL" -> "id"
    [] frag = "PRIMARY KEY (open_time)" -> "PRIMARY"
    [] frag = "FOREIGN KEY (volume) REFERENCES trades(id)" -> "FOREIGN"

\* What the database reads in a fragment: a column definition or a table constraint.
IsColumnDef(frag) ==
  frag \in {"open_time TIMESTAMP", "volume NUMERIC", "id SERIAL"}

ColumnType(frag) ==
  CASE frag = "open_time TIMESTAMP" -> "TIMESTAMP"
    [] frag = "volume NUMERIC" -> "NUMERIC"
    [] frag = "id SERIAL" -> "SERIAL"

\* line.upper().startswith("FOREIGN KEY")
StartsWithForeignKey(line) ==
  Len(line) > 0 /\ line[1] = "FOREIGN KEY (volume) REFERENCES trades(id)"

\* A layout of a block puts every fragment of the table's list on one of the lines
\* 1..MaxLines or leaves it out (0), in the order of the list; a line may stay blank.
Layouts(frags) ==
  { b \in [1..Len(frags) -> 0..MaxLines] :
      \A i, k \in 1..Len(frags) : (i < k /\ b[i] # 0 /\ b[k] # 0) => b[i] <= b[k] }

Body(frags, a) ==
  [j \in 1..MaxLines |->
     SelectSeq(frags, LAMBDA f : \E i \in 1..Len(frags) : frags[i] = f /\ a[i] = j)]

Block(table, body) == [table |-> table, body |-> body]

NoBlock == <<>>

\* The files: a trades block or none, then a price_data block or none.
SchemaFiles ==
  [trades : Layouts(TradesFragments) \cup {NoBlock},
   price_data : Layouts(PriceDataFragments) \cup {NoBlock}]

\* schema_path.read_text()
Text(file) ==
  (IF file.trades = NoBlock THEN <<>>
   ELSE <<Block("trades", Body(TradesFragments, file.trades))>>)
  \o
  (IF file.price_data = NoBlock THEN <<>>
   ELSE <<Block("price_data", Body(PriceDataFragments, file.price_data))>>)

\* One edit of the file: a block added or removed, or one fragment moved, added or
\* removed.
OneEdit(f, g) ==
  IF f.trades = g.trades
  THEN /\ f.price_data # g.price_data
       /\ IF f.price_data = NoBlock \/ g.price_data = NoBlock THEN TRUE
          ELSE Cardinality({i \in 1..Len(PriceDataFragments) :
                              f.price_data[i] # g.price_data[i]}) = 1
  ELSE f.price_data = g.price_data

----------------
(* db_manager.parse_schema *)

\* for line in body.splitlines(): strip, rstrip(','), skip blank and FOREIGN KEY
\* lines, else columns.append((line.split()[0], line)).
RECURSIVE ParseColumns(_, _)
ParseColumns(body, j) ==
  IF j > Len(body) THEN <<>>
  ELSE IF body[j] = <<>> \/ StartsWithForeignKey(body[j])
       THEN ParseColumns(body, j + 1)
       ELSE << <<FirstWord(body[j][1]), body[j]>> >> \o ParseColumns(body, j + 1)

\* schema[table] = {...} on a dict: a table seen before keeps its position and
\* takes the new value, a new table goes to the end.
DictSet(d, key, value) ==
  IF \E i \in 1..Len(d) : d[i][1] = key
  THEN [i \in 1..Len(d) |-> IF d[i][1] = key THEN <<key, value>> ELSE d[i]]
  ELSE Append(d, <<key, value>>)

RECURSIVE ParseBlocks(_, _, _)
ParseBlocks(blocks, i, d) ==
  IF i > Len(blocks) THEN d
  ELSE ParseBlocks(blocks, i + 1,
         DictSet(d, blocks[i].table,
                 [create |-> blocks[i],
                  columns |-> ParseColumns(blocks[i].body, 1)]))

parse_schema(schema_text) == ParseBlocks(schema_text, 1, <<>>)

----------------------------------------------------------------------------
(* The statements ensure_schema sends, as PostgreSQL executes them inside  *)
(* the connection's transaction.                                           *)

RECURSIVE Flatten(_, _)
Flatten(body, j) ==
  IF j > Len(body) THEN <<>> ELSE body[j] \o Flatten(body, j + 1)

ColumnFragments(body) == SelectSeq(Flatten(body, 1), IsColumnDef)

ColumnsOf(body) ==
  LET cs == ColumnFragments(body) IN
  [n \in {FirstWord(cs[i]) : i \in 1..Len(cs)} |->
     ColumnType(CHOOSE f \in {cs[i] : i \in 1..Len(cs)} : FirstWord(f) = n)]

HasFragment(body, frag) ==
  \E i \in 1..Len(Flatten(body, 1)) : Flatten(body, 1)[i] = frag

\* A table constraint names columns of the table, and a foreign key a table and a
\* column that exist.
ConstraintsValid(sess, body) ==
  /\ HasFragment(body, "PRIMARY KEY (open_time)")
       => "open_time" \in DOMAIN ColumnsOf(body)
  /\ HasFragment(body, "FOREIGN KEY (volume) REFERENCES trades(id)")
       => /\ "volume" \in DOMAIN ColumnsOf(body)
          /\ "trades" \in DOMAIN sess
          /\ "id" \in DOMAIN sess["trades"]

\* cur.execute(info["create"]): CREATE TABLE IF NOT EXISTS <table> (<body>);
DbCreateTable(sess, block) ==
  IF block.table \in DOMAIN sess THEN [ok |-> TRUE, session |-> sess]
  ELSE IF ConstraintsValid(sess, block.body)
       THEN [ok |-> TRUE,
             session |-> [t \in DOMAIN sess \cup {block.table} |->
                            IF t = block.table THEN ColumnsOf(block.body)
                            ELSE sess[t]]]
       ELSE [ok |-> FALSE, session |-> sess]

\* cur.execute(f"ALTER TABLE {table} ADD COLUMN {definition}"): the definition must
\* be one column definition (a second fragment after a comma, or a table constraint,
\* is a syntax error) of a column the table does not have.
DbAddColumn(sess, table, definition) ==
  IF /\ Len(definition) = 1
     /\ IsColumnDef(definition[1])
     /\ FirstWord(definition[1]) \notin DOMAIN sess[table]
  THEN [ok |-> TRUE,
        session |-> [sess EXCEPT ![table] =
           [c \in DOMAIN sess[table] \cup {FirstWord(definition[1])} |->
              IF c \in DOMAIN sess[table] THEN sess[table][c]
              ELSE ColumnType(definition[1])]]]
  ELSE [ok |-> FALSE, session |-> sess]

----------------------------------------------------------------------------
(* db_manager.ensure_schema *)

CursorFactories == {"cursor", "RealDictCursor"}

\* db_manager.main: psycopg2.connect(dsn, cursor_factory=RealDictCursor)
MainCursorFactory == "RealDictCursor"

\* cur.fetchone()[0]: a RealDictCursor row is a dict keyed by column name.
FetchoneIndex0Raises(factory) == factory = "RealDictCursor"

\* for col_name, definition in info["columns"]: if col_name not in existing: ALTER.
\* existing is read once, before the loop.
RECURSIVE AddMissingColumns(_, _, _, _, _, _)
AddMissingColumns(sess, table, existing, columns, k, done) ==
  IF k > Len(columns) THEN [session |-> sess, stmts |-> done, exc |-> "none"]
  ELSE IF columns[k][1] \in existing
       THEN AddMissingColumns(sess, table, existing, columns, k + 1, done)
       ELSE LET r == DbAddColumn(sess, table, columns[k][2])
                log == Append(done, <<"ADD COLUMN", table, columns[k][2]>>)
            IN IF r.ok
               THEN AddMissingColumns(r.session, table, existing, columns, k + 1, log)
               ELSE [session |-> sess, stmts |-> log, exc |-> "DatabaseError"]

\* Mutant: a table that lacks a declared column is rebuilt from its creation
\* statement instead of being altered.
EnsureTable_Recreate(sess, table, info, factory) ==
  IF FetchoneIndex0Raises(factory)
  THEN [session |-> sess, stmts |-> <<>>, exc |-> "KeyError"]
  ELSE IF table \notin DOMAIN sess
          \/ \E k \in 1..Len(info.columns) : info.columns[k][1] \notin DOMAIN sess[table]
       THEN [session |-> [t \in DOMAIN sess \cup {table} |->
                            IF t = table THEN ColumnsOf(info.create.body) ELSE sess[t]],
             stmts |-> << <<"CREATE TABLE", table, info.create.body>> >>,
             exc |-> "none"]
       ELSE [session |-> sess, stmts |-> <<>>, exc |-> "none"]

\* One iteration of "for table, info in schema.items()" (lines 36-51).
EnsureTable(sess, table, info, factory) ==
  IF FetchoneIndex0Raises(factory)
  THEN [session |-> sess, stmts |-> <<>>, exc |-> "KeyError"]
  ELSE IF table \notin DOMAIN sess
       THEN LET r == DbCreateTable(sess, info.create) IN
            [session |-> r.session,
             stmts |-> << <<"CREATE TABLE", table, info.create.body>> >>,
             exc |-> IF r.ok THEN "none" ELSE "DatabaseError"]
       ELSE AddMissingColumns(sess, table, DOMAIN sess[table], info.columns, 1, <<>>)

\* print(f"Creating table {table}") and print(f"Adding column {col_name} to
\* {table}"), each written before its statement is executed.
Messages(sent) ==
  [i \in 1..Len(sent) |->
     IF sent[i][1] = "CREATE TABLE" THEN <<"Creating table", sent[i][2]>>
     ELSE <<"Adding column", FirstWord(sent[i][3][1]), sent[i][2]>>]

\* Mutant: conn.commit() indented into the for loop.
CommittedAfterTable_InLoop(committed, sess) == sess

\* What a finished iteration makes visible to other sessions: nothing, the only
\* conn.commit() comes after the loop (line 52).
CommittedAfterTable(committed, sess) == committed

\* conn.commit() after the loop.
CommittedAfterPass(committed, sess) == sess

----------------------------------------------------------------------------------------------------------------------------------------
(* price_data and the upstream client *)

Symbols == {"BTCUSDT", "ETHUSDT"}

\* Symbols as callers write them.
SymbolArgs == {"BTC/USDT", "ETHUSDT"}

\* symbol.replace("/", "")
FormatSymbol(symbol) == IF symbol = "BTC/USDT" THEN "BTCUSDT" ELSE symbol

\* intervals = [i.value for i in Interval], in the order of the enumeration.
IntervalList == <<"1h", "2h">>

Intervals == {IntervalList[i] : i \in 1..Len(IntervalList)}

\* Interval.from_string(interval).to_timedelta(), in ticks.
Delta(interval) ==
  IF interval = "1h" THEN TicksPerSecond ELSE 2 * TicksPerSecond

Times == 0..MaxTime

\* Open times of the candles of an interval.
Grid(interval) == {t \in Times : t % Delta(interval) = 0}

Keys == UNION {{<<s, i, t>> : s \in Symbols, t \in Grid(i)} : i \in Intervals}

\* datetime(2017, 8, 17), the origin of the clock.
EpochStart == 0

EmptyStore == [k \in Keys |-> 0]

RECURSIVE SetToSeq(_)
SetToSeq(S) ==
  IF S = {} THEN <<>>
  ELSE LET x == CHOOSE y \in S : TRUE IN <<x>> \o SetToSeq(S \ {x})

KeyList == SetToSeq(Keys)

RECURSIVE SumCounts(_, _)
SumCounts(st, i) ==
  IF i > Len(KeyList) THEN 0 ELSE st[KeyList[i]] + SumCounts(st, i + 1)

\* SELECT count(*) FROM price_data
RowCount(st) == SumCounts(st, 1)

\* n copies of t.
Copies(t, n) == [i \in 1..n |-> t]

\* The open_times of the rows of a pair between a and b, ascending, a row per copy.
RECURSIVE RowsFrom(_, _, _, _, _)
RowsFrom(st, symbol, interval, a, b) ==
  IF a > b \/ a > MaxTime THEN <<>>
  ELSE (IF a \in Grid(interval) THEN Copies(a, st[<<symbol, interval, a>>]) ELSE <<>>)
         \o RowsFrom(st, symbol, interval, a + 1, b)

\* Number of entries of a sequence equal to t.
Occurrences(seq, t) == Cardinality({i \in 1..Len(seq) : seq[i] = t})

\* start_date.strftime("%Y-%m-%d %H:%M:%S"): the fraction of the second is dropped.
Strftime(t) == t - (t % TicksPerSecond)

\* The offsets of the hosts' time zones: UTC, one unit east and one unit west.
UtcOffsets == {0 - TicksPerSecond, 0, TicksPerSecond}

\* start_date.timestamp() of a naive datetime reads it as local time: the instant
\* it gives is the naive value less the offset of the host's zone.  The rows come
\* back through pd.to_datetime(unit="ms"), naive UTC.
Timestamp(t, off) == t - off

\* The candles the exchange holds for an interval between two instants: those of
\* the grid that have opened by now.
RECURSIVE Candles(_, _, _, _)
Candles(interval, a, b, clock) ==
  IF a > b \/ a > clock \/ a > MaxTime THEN <<>>
  ELSE (IF a \in Grid(interval) THEN <<a>> ELSE <<>>)
         \o Candles(interval, a + 1, b, clock)

----------------------------------------------------------------------------
(* src/utils/database.py *)

\* get_connection: psycopg2.connect(dsn, cursor_factory=RealDictCursor)
ProviderCursorFactory == "RealDictCursor"

\* Mutant: the batch replaces the rows the pair has.
InsertRows_Replace(st, symbol, interval, batch) ==
  [k \in Keys |->
     IF k[1] = symbol /\ k[2] = interval THEN Occurrences(batch, k[3])
     ELSE st[k]]

\* The INSERT of insert_price_data: one row per record of the batch, appended; the
\* statement names no conflict target and price_data has no unique key.
InsertRows(st, symbol, interval, batch) ==
  [k \in Keys |->
     IF k[1] = symbol /\ k[2] = interval THEN st[k] + Occurrences(batch, k[3])
     ELSE st[k]]

\* Whether price_data declares (symbol, interval, open_time) unique.  The table is
\* declared in init.sql; the store appends rows without conflict detection.
PriceDataUnique == FALSE

\* What a call returns is kept as a sequence: <<v>> for the value v, and the empty
\* sequence for None, which a bare `return` and the end of a function body give.
None == <<>>

\* insert_price_data(df, symbol, interval, conn).  fault: the storage layer fails the
\* statement.  A statement on a connection whose transaction is aborted fails too.
\* Nothing of a failed batch is committed.
insert_price_data(st, tx, batch, symbol, interval, fault) ==
  IF batch = <<>> THEN [store |-> st, tx |-> tx, exc |-> "none", value |-> None]
  ELSE IF fault \/ tx = "inerror"
       THEN [store |-> st, tx |-> "inerror", exc |-> "DatabaseError", value |-> None]
       ELSE IF PriceDataUnique
               /\ \E k \in Keys : InsertRows(st, symbol, interval, batch)[k] > 1
       THEN [store |-> st, tx |-> "inerror", exc |-> "UniqueViolation", value |-> None]
       ELSE [store |-> InsertRows(st, symbol, interval, batch),
             tx |-> "idle", exc |-> "none", value |-> None]

----------------------------------------------------------------------------
(* src/utils/binance_data_provider.py *)

\* The range of the cache query: the bounds are passed as strftime strings.
CacheRows(st, symbol, interval, start, end) ==
  RowsFrom(st, symbol, interval, Strftime(start), Strftime(end))

\* Mutant: what was fetched is stored whatever use_cache says.
StoresFetched_Always(use_cache) == TRUE

\* Whether the handler stores what it fetched: "if use_cache:" (line 130).
StoresFetched(use_cache) == use_cache

\* What the environment does to a call: nothing ("ok"), the upstream client raises
\* ("raise"), its rows do not fit COLUMNS and pd.DataFrame raises ("malformed"), or
\* the storage layer fails the INSERT ("fault").
Environments == {"ok", "raise", "malformed", "fault"}

\* Mutant: the handler lets the exception through.
OnFetchError_Reraise(st, tx) ==
  [store |-> st, tx |-> tx, res |-> "raised", ret |-> <<>>, called |-> TRUE]

\* except Exception as e: print(...); return pd.DataFrame()  (lines 135-139)
OnFetchError(st, tx) ==
  [store |-> st, tx |-> tx, res |-> "error_empty", ret |-> <<>>, called |-> TRUE]

\* BinanceDataProvider.get_historical_klines, start_date and end_date given.
get_historical_klines(st, tx, clock, off, symbol, interval, start, end, use_cache, env) ==
  LET fsym == FormatSymbol(symbol)
      tx1 == IF use_cache THEN "intrans" ELSE tx
      start_ts == Timestamp(start, off)
      end_ts == Timestamp(end, off)
  IN IF use_cache /\ tx = "inerror"
     \* pd.read_sql_query fails, pandas rolls the connection back and raises
     THEN [store |-> st, tx |-> "idle", res |-> "raised", ret |-> <<>>,
           called |-> FALSE]
     ELSE IF use_cache /\ CacheRows(st, fsym, interval, start, end) # <<>>
     THEN [store |-> st, tx |-> tx1, res |-> "hit",
           ret |-> CacheRows(st, fsym, interval, start, end), called |-> FALSE]
     ELSE IF env \in {"raise", "malformed"}
     THEN OnFetchError(st, tx1)
     ELSE IF ~StoresFetched(use_cache)
     THEN [store |-> st, tx |-> tx1, res |-> "fetched",
           ret |-> Candles(interval, start_ts, end_ts, clock), called |-> TRUE]
     ELSE LET df == Candles(interval, start_ts, end_ts, clock)
              ins == insert_price_data(st, tx1, df, fsym, interval, env = "fault")
          IN IF ins.exc # "none"
             THEN OnFetchError(st, ins.tx)
             ELSE [store |-> ins.store, tx |-> ins.tx, res |-> "stored", ret |-> df,
                   called |-> TRUE]

----------------------------------------------------------------------------
(* full_market_collector.get_last_open_time *)

\* What fetchone() gives when the pair has no rows and the value of a missing
\* high-water mark.
NoTime == -1

\* SELECT MAX(open_time) FROM price_data WHERE symbol=%s AND interval=%s
MaxOpenTime(st, symbol, interval) ==
  LET rows == RowsFrom(st, symbol, interval, 0, MaxTime)
  IN IF rows = <<>> THEN NoTime ELSE rows[Len(rows)]

\* get_last_open_time(conn, symbol, interval): execute, fetchone, row[0].
get_last_open_time(st, tx, factory, symbol, interval) ==
  IF tx = "inerror"
  THEN [exc |-> "InFailedSqlTransaction", value |-> NoTime, tx |-> tx]
  ELSE IF FetchoneIndex0Raises(factory)
  THEN [exc |-> "KeyError", value |-> NoTime, tx |-> "intrans"]
  ELSE [exc |-> "none", value |-> MaxOpenTime(st, symbol, interval),
        tx |-> "intrans"]

----------------------------------------------------------------------------
(* Calls on a provider and on the store by a client process *)

SchemaQuiet ==
  /\ init_sql = [trades |-> NoBlock, price_data |-> NoBlock]
  /\ catalog = <<>>
  /\ session = <<>>
  /\ pc = "idle"
  /\ cursor_factory = MainCursorFactory
  /\ schema = <<>>
  /\ idx = 1
  /\ stmts = <<>>
  /\ exc = "none"
  /\ outcome = "none"
  /\ repeatRun = FALSE
  /\ printed = <<>>

IngestQuiet ==
  /\ store = EmptyStore
  /\ now = 0
  /\ connTx = "idle"
  /\ call = <<>>
  /\ res = "none"
  /\ ret = <<>>
  /\ returned = None
  /\ calledUpstream = FALSE
  /\ cpc = "off"
  /\ symbols = <<>>
  /\ pair = <<1, 1>>
  /\ lastRequest = <<>>
  /\ utcOffset = 0
  /\ listed = <<>>

ProviderInit == SchemaQuiet /\ IngestQuiet

\* The clock advances; it is read at whole seconds.
Tick ==
  /\ call = <<>>
  /\ cpc \notin {"crashed", "stopped", "interrupted"}
  /\ now + TicksPerSecond <= MaxTime
  /\ now' = now + TicksPerSecond
  /\ UNCHANGED <<store, connTx, call, res, ret, calledUpstream, cpc, symbols, pair,
                 lastRequest>>
  /\ UNCHANGED <<utcOffset, listed, returned>>
  /\ UNCHANGED schemaVars

\* provider.get_historical_klines(symbol, interval, start, end, use_cache)
GetHistoricalKlines(symbol, interval, start, end, use_cache, env) ==
  /\ cpc = "off"
  /\ call = <<>>
  /\ \E r \in {get_historical_klines(store, connTx, now, utcOffset, symbol, interval,
                                      start, end, use_cache, env)} :
     /\ IF r.store = store THEN TRUE ELSE RowCount(r.store) <= MaxRows
     /\ store' = r.store
     /\ connTx' = r.tx
     /\ res' = r.res
     /\ ret' = r.ret
     /\ calledUpstream' = r.called
  /\ call' = <<"get_historical_klines", symbol, interval, start, end, use_cache, env>>
  /\ UNCHANGED <<now, cpc, symbols, pair, lastRequest>>
  /\ UNCHANGED <<utcOffset, listed, returned>>
  /\ UNCHANGED schemaVars

\* The windows a caller asks for.
Windows == {w \in Times \X Times : w[1] <= w[2]}

\* The batches a caller hands to insert_price_data: candles of the interval.
Batches(interval) ==
  {<<>>} \cup { <<t>> : t \in Grid(interval) }
         \cup { b \in Grid(interval) \X Grid(interval) : b[1] < b[2] }

\* insert_price_data(df, symbol, interval, provider.conn), called directly.
InsertPriceData(batch, symbol, interval, fault) ==
  /\ cpc = "off"
  /\ call = <<>>
  /\ \E r \in {insert_price_data(store, connTx, batch, symbol, interval, fault)} :
     /\ IF r.store = store THEN TRUE ELSE RowCount(r.store) <= MaxRows
     /\ store' = r.store
     /\ connTx' = r.tx
     /\ res' = IF r.exc = "none" THEN "inserted" ELSE "raised"
     /\ returned' = r.value
  /\ ret' = <<>>
  /\ calledUpstream' = FALSE
  /\ call' = <<"insert_price_data", symbol, interval, batch, fault>>
  /\ UNCHANGED <<now, cpc, symbols, pair, lastRequest>>
  /\ UNCHANGED <<utcOffset, listed>>
  /\ UNCHANGED schemaVars

\* get_last_open_time(provider.conn, symbol, interval), called directly.
GetLastOpenTime(symbol, interval) ==
  /\ cpc = "off"
  /\ call = <<>>
  /\ \E r \in {get_last_open_time(store, connTx, ProviderCursorFactory, symbol,
                                   interval)} :
     /\ connTx' = r.tx
     /\ res' = IF r.exc = "none" THEN "returned" ELSE "raised"
     /\ ret' = IF r.exc = "none" /\ r.value # NoTime THEN <<r.value>> ELSE <<>>
  /\ calledUpstream' = FALSE
  /\ call' = <<"get_last_open_time", symbol, interval>>
  /\ UNCHANGED <<store, now, cpc, symbols, pair, lastRequest>>
  /\ UNCHANGED <<utcOffset, listed, returned>>
  /\ UNCHANGED schemaVars

\* The call returns to its caller.
Return ==
  /\ call # <<>>
  /\ call' = <<>>
  /\ res' = "none"
  /\ ret' = <<>>
  /\ calledUpstream' = FALSE
  /\ UNCHANGED <<store, now, connTx, cpc, symbols, pair, lastRequest>>
  /\ returned' = <<>>
  /\ UNCHANGED <<utcOffset, listed>>
  /\ UNCHANGED schemaVars

ProviderNext ==
  \/ Tick
  \/ \E symbol \in SymbolArgs, interval \in Intervals, window \in Windows,
        use_cache \in BOOLEAN, env \in Environments :
       GetHistoricalKlines(symbol, interval, window[1], window[2], use_cache, env)
  \/ \E interval \in Intervals, symbol \in Symbols, fault \in BOOLEAN :
       \E batch \in Batches(interval) :
         InsertPriceData(batch, symbol, interval, fault)
  \/ \E symbol \in Symbols, interval \in Intervals : GetLastOpenTime(symbol, interval)
  \/ Return

SpecProvider == ProviderInit /\ [][ProviderNext]_vars

----------------------------------------------------------------------------
(* full_market_collector.py *)

\* The answers of client.get_exchange_info(): the listed symbols and their status.
Statuses == {"TRADING", "BREAK"}

ExchangeInfos ==
  {<<>>}
    \cup { <<[symbol |-> s, status |-> st]>> : s \in Symbols, st \in Statuses }
    \cup { <<[symbol |-> "BTCUSDT", status |-> st1],
             [symbol |-> "ETHUSDT", status |-> st2]>> : st1 \in Statuses,
                                                        st2 \in Statuses }

RECURSIVE TradingSymbols(_, _)
TradingSymbols(info, i) ==
  IF i > Len(info) THEN <<>>
  ELSE (IF info[i].status = "TRADING" THEN <<info[i].symbol>> ELSE <<>>)
         \o TradingSymbols(info, i + 1)

\* get_all_symbols(provider)
get_all_symbols(info) == TradingSymbols(info, 1)

\* collect_incremental(provider, symbol, interval).  The cursor is read before the
\* try; what the provider raises inside the try is caught.
collect_incremental(st, tx, clock, off, symbol, interval, env) ==
  LET last == get_last_open_time(st, tx, ProviderCursorFactory, symbol, interval)
      start_date == IF last.value # NoTime THEN last.value + Delta(interval)
                    ELSE EpochStart
      r == get_historical_klines(st, last.tx, clock, off, symbol, interval,
                                 start_date, clock, TRUE, env)
  IN IF last.exc # "none"
     THEN [exc |-> last.exc, store |-> st, tx |-> last.tx, request |-> <<>>,
           res |-> "raised", ret |-> <<>>, called |-> FALSE]
     ELSE [exc |-> "none", store |-> r.store, tx |-> r.tx,
           request |-> <<symbol, interval, start_date, clock>>,
           res |-> r.res, ret |-> r.ret, called |-> r.called]

\* The stores a collector can find when it starts.
InitialStores == {st \in [Keys -> 0..1] : RowCount(st) <= MaxRows}

CollectorInit ==
  /\ SchemaQuiet
  /\ store \in InitialStores
  /\ now \in {t \in Times : t % TicksPerSecond = 0}
  /\ connTx = "idle"
  /\ call = <<>>
  /\ res = "none"
  /\ ret = <<>>
  /\ returned = None
  /\ calledUpstream = FALSE
  /\ cpc = "start"
  /\ symbols = <<>>
  /\ pair = <<1, 1>>
  /\ lastRequest = <<>>
  /\ utcOffset \in UtcOffsets
  /\ listed \in ExchangeInfos

\* main, up to the loop: the provider is built and the symbols are listed, once.
CollectorStart(raises) ==
  /\ cpc = "start"
  /\ cpc' = IF raises THEN "failed" ELSE "loop"
  /\ symbols' = IF raises THEN <<>> ELSE get_all_symbols(listed)
  /\ UNCHANGED <<store, now, connTx, call, res, ret, calledUpstream, pair,
                 lastRequest>>
  /\ UNCHANGED <<utcOffset, listed, returned>>
  /\ UNCHANGED schemaVars

\* One turn of "for symbol in symbols: for interval in intervals:".
\* signal: SIGINT or SIGTERM arrives while collect_incremental runs.  main installs
\* no handler: KeyboardInterrupt is raised where the process stands (it is not an
\* Exception, no except clause of the collector or the provider catches it), or the
\* process is ended at once; the open transaction is not committed.
CollectPair(env, signal) ==
  /\ cpc = "loop"
  /\ pair[1] <= Len(symbols)
  /\ IF signal
     THEN /\ cpc' = "interrupted"
          /\ connTx' = "intrans"
          /\ res' = "raised"
          /\ ret' = <<>>
          /\ calledUpstream' = FALSE
          /\ lastRequest' = <<>>
          /\ UNCHANGED <<store, pair>>
     ELSE \E r \in {collect_incremental(store, connTx, now, utcOffset,
                                        symbols[pair[1]], IntervalList[pair[2]],
                                        env)} :
            /\ IF r.store = store THEN TRUE ELSE RowCount(r.store) <= MaxRows
            /\ store' = r.store
            /\ connTx' = r.tx
            /\ res' = r.res
            /\ ret' = r.ret
            /\ calledUpstream' = r.called
            /\ lastRequest' = r.request
            /\ cpc' = IF r.exc = "none" THEN "loop" ELSE "crashed"
            /\ pair' = IF r.exc # "none" THEN pair
                       ELSE IF pair[2] < Len(IntervalList)
                            THEN <<pair[1], pair[2] + 1>>
                            ELSE <<pair[1] + 1, 1>>
  /\ UNCHANGED <<now, call, symbols>>
  /\ UNCHANGED <<utcOffset, listed, returned>>
  /\ UNCHANGED schemaVars

\* The for loops are through: time.sleep(60) begins.
CycleSleep ==
  /\ cpc = "loop"
  /\ pair[1] > Len(symbols)
  /\ cpc' = "sleeping"
  /\ UNCHANGED <<store, now, connTx, call, res, ret, calledUpstream, symbols, pair,
                 lastRequest>>
  /\ UNCHANGED <<utcOffset, listed, returned>>
  /\ UNCHANGED schemaVars

\* time.sleep(60) returns and "while True" starts the next cycle, which walks the
\* list main built before the loop.
CycleWake ==
  /\ cpc = "sleeping"
  /\ cpc' = "loop"
  /\ pair' = <<1, 1>>
  /\ UNCHANGED <<store, now, connTx, call, res, ret, calledUpstream, symbols,
                 lastRequest>>
  /\ UNCHANGED <<utcOffset, listed, returned>>
  /\ UNCHANGED schemaVars

\* SIGINT or SIGTERM arrives between two pairs or during a sleep: the process ends.
Shutdown ==
  /\ cpc \in {"loop", "sleeping"}
  /\ cpc' = "stopped"
  /\ UNCHANGED <<store, now, connTx, call, res, ret, calledUpstream, symbols, pair,
                 lastRequest>>
  /\ UNCHANGED <<utcOffset, listed, returned>>
  /\ UNCHANGED schemaVars

\* The exchange lists a symbol, delists one or changes a status.
ExchangeUpdate(info) ==
  /\ cpc \in {"start", "loop", "sleeping"}
  /\ info # listed
  /\ listed' = info
  /\ UNCHANGED <<store, now, connTx, call, res, ret, calledUpstream, cpc, symbols,
                 pair, lastRequest, utcOffset, returned>>
  /\ UNCHANGED schemaVars

CollectorNext ==
  \/ \E raises \in BOOLEAN : CollectorStart(raises)
  \/ \E info \in ExchangeInfos : ExchangeUpdate(info)
  \/ \E env \in Environments, signal \in BOOLEAN : CollectPair(env, signal)
  \/ Shutdown
  \/ CycleSleep
  \/ CycleWake
  \/ Tick

SpecCollector == CollectorInit /\ [][CollectorNext]_vars

\* The collector as the interpreter runs it: a statement that can be executed is
\* executed, a sleep ends.  Signals and changes of the exchange may or may not
\* come.
SpecCollectorLive ==
  /\ CollectorInit
  /\ [][CollectorNext]_vars
  /\ WF_vars(\E raises \in BOOLEAN : CollectorStart(raises))
  /\ WF_vars(\E env \in Environments : CollectPair(env, FALSE))
  /\ WF_vars(CycleSleep)
  /\ WF_vars(CycleWake)

----------------------------------------------------------------------------
(* The engine: a host in some time zone runs the collector, or a client process *)
(* calls the provider.                                                         *)

ClientInit ==
  /\ SchemaQuiet
  /\ store = EmptyStore
  /\ now = 0
  /\ connTx = "idle"
  /\ call = <<>>
  /\ res = "none"
  /\ ret = <<>>
  /\ returned = None
  /\ calledUpstream = FALSE
  /\ cpc = "off"
  /\ symbols = <<>>
  /\ pair = <<1, 1>>
  /\ lastRequest = <<>>
  /\ utcOffset \in UtcOffsets
  /\ listed = <<>>

EngineInit == ClientInit \/ CollectorInit

EngineNext ==
  \/ CollectorNext
  \/ \E symbol \in SymbolArgs, interval \in Intervals, window \in Windows,
        use_cache \in BOOLEAN, env \in Environments :
       GetHistoricalKlines(symbol, interval, window[1], window[2], use_cache, env)
  \/ Return

SpecEngine == EngineInit /\ [][EngineNext]_vars

----------------------------------------------------------------------------
(* db_manager.main, one run of the schema-check command *)

\* Catalogs the database may hold before the first run.
InitialCatalogs ==
  { <<>>,
    [t \in {"price_data"} |->
       [c \in {"open_time", "note"} |-> IF c = "note" THEN "TEXT" ELSE "TIMESTAMP"]],
    [t \in {"legacy", "price_data"} |->
       IF t = "legacy" THEN [c \in {"x"} |-> "TEXT"] ELSE [c \in {"volume"} |-> "TEXT"]] }

SchemaInit ==
  /\ IngestQuiet
  /\ init_sql \in SchemaFiles
  /\ catalog \in InitialCatalogs
  /\ session = catalog
  /\ pc = "idle"
  /\ cursor_factory = MainCursorFactory
  /\ schema = <<>>
  /\ idx = 1
  /\ stmts = <<>>
  /\ exc = "none"
  /\ outcome = "none"
  /\ repeatRun = FALSE
  /\ printed = <<>>

\* init.sql is edited between two runs of the command.
EditSchemaFile(file) ==
  /\ pc = "idle"
  /\ OneEdit(init_sql, file)
  /\ init_sql' = file
  /\ stmts' = <<>>
  /\ exc' = "none"
  /\ outcome' = "none"
  /\ repeatRun' = FALSE
  /\ printed' = <<>>
  /\ UNCHANGED <<catalog, session, pc, cursor_factory, schema, idx>>
  /\ UNCHANGED ingestVars

\* conn = psycopg2.connect(...): main passes RealDictCursor; ensure_schema itself
\* takes whatever connection its caller built.
Connect(factory) ==
  /\ pc = "idle"
  /\ pc' = "connected"
  /\ cursor_factory' = factory
  /\ session' = catalog
  /\ printed' = << <<"Connecting to", "DEFAULT_DSN">> >>
  /\ UNCHANGED <<init_sql, catalog, schema, idx, stmts, exc, outcome, repeatRun>>
  /\ UNCHANGED ingestVars

\* schema = parse_schema(SCHEMA_PATH), then the call of ensure_schema.
ParseSchema ==
  /\ pc = "connected"
  /\ pc' = "ensure"
  /\ schema' = parse_schema(Text(init_sql))
  /\ repeatRun' = (outcome = "ok")
  /\ idx' = 1
  /\ stmts' = <<>>
  /\ exc' = "none"
  /\ outcome' = "running"
  /\ UNCHANGED <<init_sql, catalog, session, cursor_factory, printed>>
  /\ UNCHANGED ingestVars

\* One iteration of the for loop of ensure_schema.
EnsureSchemaTable ==
  /\ pc = "ensure"
  /\ idx <= Len(schema)
  /\ \E r \in {EnsureTable(session, schema[idx][1], schema[idx][2], cursor_factory)} :
     /\ session' = r.session
     /\ stmts' = stmts \o r.stmts
     /\ printed' = printed \o Messages(r.stmts)
     /\ exc' = r.exc
     /\ IF r.exc = "none"
        THEN /\ idx' = idx + 1
             /\ catalog' = CommittedAfterTable(catalog, r.session)
             /\ UNCHANGED <<pc, outcome>>
        ELSE /\ pc' = "raised"
             /\ outcome' = "error"
             /\ UNCHANGED <<idx, catalog>>
  /\ UNCHANGED <<init_sql, cursor_factory, schema, repeatRun>>
  /\ UNCHANGED ingestVars

\* conn.commit() at the end of ensure_schema.
EnsureSchemaCommit ==
  /\ pc = "ensure"
  /\ idx > Len(schema)
  /\ catalog' = CommittedAfterPass(catalog, session)
  /\ pc' = "done"
  /\ outcome' = "ok"
  /\ UNCHANGED <<init_sql, session, cursor_factory, schema, idx, stmts, exc, repeatRun,
                 printed>>
  /\ UNCHANGED ingestVars

\* conn.close() and return of main.
ConnClose ==
  /\ pc = "done"
  /\ pc' = "idle"
  /\ session' = catalog
  /\ schema' = <<>>
  /\ idx' = 1
  /\ printed' = Append(printed, <<"Database check complete.">>)
  /\ UNCHANGED <<init_sql, catalog, cursor_factory, stmts, exc, outcome, repeatRun>>
  /\ UNCHANGED ingestVars

\* The exception leaves main: the process ends, the server rolls back the open
\* transaction of the dropped connection.
MainRaises ==
  /\ pc = "raised"
  /\ pc' = "idle"
  /\ session' = catalog
  /\ schema' = <<>>
  /\ idx' = 1
  /\ printed' = Append(printed, <<"Traceback", exc>>)
  /\ UNCHANGED <<init_sql, catalog, cursor_factory, stmts, exc, outcome, repeatRun>>
  /\ UNCHANGED ingestVars

SchemaNext ==
  \/ \E file \in SchemaFiles : EditSchemaFile(file)
  \/ \E f \in CursorFactories : Connect(f)
  \/ ParseSchema
  \/ EnsureSchemaTable
  \/ EnsureSchemaCommit
  \/ ConnClose
  \/ MainRaises

SpecSchema == SchemaInit /\ [][SchemaNext]_vars

----------------------------------------------------------------------------
(* Properties of the schema synchronizer *)

Sent(stmt) == \E i \in 1..Len(stmts) : stmts[i] = stmt

PassEnded == pc \in {"done", "raised"}

\* All tables of the pass are processed and conn.commit() is next: catalog is still
\* the catalog the pass started from, session the catalog it is about to commit.
BeforeCommit == pc = "ensure" /\ idx > Len(schema)

\* The comma-separated column definitions of the body of a table's block.
DeclaredColumns(info) == ColumnsOf(info.create.body)

\* C1 (as claimed): a pass over the same schema right after a pass that succeeded
\* succeeds too and sends no CREATE TABLE and no ADD COLUMN statement.  Stated for a
\* connection whose rows are tuples; with the RealDictCursor connection of main
\* every pass over a non-empty schema raises KeyError before its first statement.
C1_Idempotent ==
  (repeatRun /\ PassEnded /\ cursor_factory = "cursor")
    => (outcome = "ok" /\ stmts = <<>>)

\* C2: schema synchronization is strictly additive: every table and every column of
\* the live catalog is still there after any step, with its definition unchanged,
\* whether or not the declarative schema names it.
C2_Additive ==
  [][\A t \in DOMAIN catalog :
       /\ t \in DOMAIN catalog'
       /\ \A c \in DOMAIN catalog[t] :
            c \in DOMAIN catalog'[t] /\ catalog'[t][c] = catalog[t][c]]_vars

\* A committed pass added volume to a price_data table that holds the undeclared
\* column note, next to the undeclared table-less rest of the catalog.
C2_Witness ==
  /\ pc = "done"
  /\ Sent(<<"ADD COLUMN", "price_data", <<"volume NUMERIC">>>>)
  /\ "price_data" \in DOMAIN catalog
  /\ {"note", "volume"} \subseteq DOMAIN catalog["price_data"]

\* C6: a pass is atomic: the committed catalog changes only at the one commit that
\* ends a pass in which no statement failed, and then to everything the pass did; a
\* pass that raised sends nothing more and its exception leaves main.
C6_AtomicPass ==
  [][/\ (catalog' # catalog) =>
          (BeforeCommit /\ exc = "none" /\ pc' = "done" /\ catalog' = session)
     /\ (pc = "raised") =>
          (exc # "none" /\ pc' = "idle" /\ stmts' = stmts /\ catalog' = catalog)
     /\ (pc' = "raised" /\ pc # "raised") => catalog' = catalog]_vars

\* A statement failed after an earlier statement of the same pass had created a
\* table or added a column inside the transaction.
C6_Witness ==
  /\ pc = "raised"
  /\ exc = "DatabaseError"
  /\ Len(stmts) > 1
  /\ session # catalog

\* C7 (as claimed): for a declared table that exists when the pass starts, a pass
\* that reaches its commit has added exactly the declared comma-separated columns
\* that the live table lacked, each with its own definition.
C7_AddsEachMissingColumn ==
  BeforeCommit =>
    \A i \in 1..Len(schema) :
      LET t == schema[i][1]
          declared == DeclaredColumns(schema[i][2])
      IN t \in DOMAIN catalog =>
           /\ DOMAIN session[t] \ DOMAIN catalog[t] = DOMAIN declared \ DOMAIN catalog[t]
           /\ \A c \in DOMAIN session[t] \ DOMAIN catalog[t] : session[t][c] = declared[c]

\* C17: after a pass that completed without error every table of the mapping is in
\* the live catalog with every column declared for it, and a table the pass created
\* was sent its creation statement and no ADD COLUMN.
C17_SyncPostcondition ==
  pc = "done" =>
    \A i \in 1..Len(schema) :
      LET t == schema[i][1]
          info == schema[i][2]
      IN /\ t \in DOMAIN catalog
         /\ DOMAIN DeclaredColumns(info) \subseteq DOMAIN catalog[t]
         /\ Sent(<<"CREATE TABLE", t, info.create.body>>)
              => \A k \in 1..Len(stmts) :
                   ~(stmts[k][1] = "ADD COLUMN" /\ stmts[k][2] = t)

\* The column list the claim describes: an entry for each comma-separated fragment
\* of the body, in order, but for the lines that begin with FOREIGN KEY.
RECURSIVE ColumnsClaimed(_, _)
ColumnsClaimed(body, j) ==
  IF j > Len(body) THEN <<>>
  ELSE (IF StartsWithForeignKey(body[j]) THEN <<>>
        ELSE [k \in 1..Len(body[j]) |-> <<FirstWord(body[j][k]), <<body[j][k]>>>>])
         \o ColumnsClaimed(body, j + 1)

\* C19: parse_schema yields one entry per block of the text, in order, with the
\* block as its creation statement and one (name, fragment) column entry for each
\* comma-separated fragment of the body outside the FOREIGN KEY lines.
C19_ParseSchema ==
  pc = "ensure" =>
    /\ Len(schema) = Len(Text(init_sql))
    /\ \A i \in 1..Len(schema) :
         /\ schema[i][1] = Text(init_sql)[i].table
         /\ schema[i][2].create = Text(init_sql)[i]
         /\ schema[i][2].columns = ColumnsClaimed(Text(init_sql)[i].body, 1)

\* What main writes in a run in which it has nothing to report.
RoutineMessages ==
  {<<"Connecting to", "DEFAULT_DSN">>, <<"Database check complete.">>}

\* C21: for a schema text without a table block parse_schema returns the empty
\* mapping, the pass sends no DDL and raises nothing, and the run that ends has
\* written a warning, a message beyond its routine ones.
C21_EmptySchemaWarned ==
  Text(init_sql) = <<>> =>
    /\ pc = "ensure" => schema = <<>>
    /\ PassEnded => (pc = "done" /\ stmts = <<>> /\ catalog = session)
    /\ (pc = "idle" /\ outcome = "ok")
         => \E i \in 1..Len(printed) : printed[i] \notin RoutineMessages

----------------------------------------------------------------------------
(* Properties of the store, the provider and the collector *)

KlinesCall(c) == Len(c) > 0 /\ c[1] = "get_historical_klines"

\* The step is a call of get_historical_klines.
KlinesStep == call = <<>> /\ KlinesCall(call')

\* The step is a turn of the collector's loop for a pair.
PairStep ==
  cpc = "loop" /\ pair[1] <= Len(symbols) /\ (pair' # pair \/ cpc' = "crashed")

\* C3: for a pair whose high-water mark is t, collect_incremental asks the provider
\* for [t + one interval step, now], and for a pair without rows for
\* [epoch start, now].
C3_Resumable ==
  [][PairStep =>
       LET symbol == symbols[pair[1]]
           interval == IntervalList[pair[2]]
           stored == RowsFrom(store, symbol, interval, 0, MaxTime)
           from == IF stored = <<>> THEN EpochStart
                   ELSE stored[Len(stored)] + Delta(interval)
       IN lastRequest' = <<symbol, interval, from, now>>]_vars

\* C4: insert_price_data leaves one row per (symbol, interval, open_time), whatever
\* batches it was called with.
C4_OneRowPerKey == \A k \in Keys : store[k] <= 1

\* C5: no failure in the processing of a pair ends the collector's loop.
C5_FailureIsolated == cpc # "crashed"

\* C8: a call with use_cache set, when the store holds a row of the pair in
\* [start, end], returns exactly the stored rows of that range in ascending order,
\* does not call upstream and leaves the store unchanged.
C8_CacheHit ==
  [][(/\ KlinesStep
      /\ call'[6]
      /\ connTx # "inerror"
      /\ RowsFrom(store, FormatSymbol(call'[2]), call'[3], call'[4], call'[5])
           # <<>>)
       => /\ ret' = RowsFrom(store, FormatSymbol(call'[2]), call'[3], call'[4],
                             call'[5])
          /\ ~calledUpstream'
          /\ store' = store]_vars

\* The candles of ret are in the store under the pair.
Present(st, symbol, interval, candles) ==
  \A i \in 1..Len(candles) :
    /\ <<symbol, interval, candles[i]>> \in Keys
    /\ st[<<symbol, interval, candles[i]>>] >= 1

\* C9 as stated: whenever upstream was called and answered, with or without
\* use_cache, the candles of [start, end] are in the store under the pair and are
\* returned.
C9_AsStated ==
  [][(KlinesStep /\ calledUpstream' /\ call'[7] \in {"ok", "fault"})
       => /\ ret' = Candles(call'[3], call'[4], call'[5], now)
          /\ Present(store', FormatSymbol(call'[2]), call'[3], ret')]_vars

\* C9: when upstream was called and answered and the INSERT did not fail, the
\* candles of [start, end] are returned; with use_cache set they are in the store
\* under the pair, and without it the store is unchanged.  When the INSERT fails
\* nothing is returned and the store is unchanged.
C9_FetchAndPersist ==
  [][(KlinesStep /\ calledUpstream' /\ call'[7] \in {"ok", "fault"})
       => /\ (call'[7] = "ok" \/ ~call'[6] \/ Candles(call'[3], call'[4], call'[5], now) = <<>>)
             => /\ ret' = Candles(call'[3], call'[4], call'[5], now)
                /\ call'[6] => Present(store', FormatSymbol(call'[2]), call'[3],
                                       ret')
                /\ ~call'[6] => store' = store
          /\ (call'[7] = "fault" /\ call'[6]
                /\ Candles(call'[3], call'[4], call'[5], now) # <<>>)
             => /\ ret' = <<>>
                /\ store' = store]_vars

C9_Witness ==
  /\ KlinesCall(call)
  /\ call[6]
  /\ call[7] = "ok"
  /\ res = "stored"
  /\ Len(ret) >= 2
  /\ Present(store, FormatSymbol(call[2]), call[3], ret)

\* C10: when the upstream call raises, the call returns an empty sequence, raises
\* nothing and leaves the store as it was.
C10_UpstreamErrorEmpty ==
  [][(KlinesStep /\ calledUpstream' /\ call'[7] = "raise")
       => /\ res' = "error_empty"
          /\ ret' = <<>>
          /\ store' = store]_vars

C10_Witness ==
  /\ KlinesCall(call)
  /\ call[7] = "raise"
  /\ calledUpstream
  /\ res = "error_empty"
  /\ ret = <<>>
  /\ RowCount(store) > 0

\* The step is a call of get_last_open_time.
LastOpenTimeStep ==
  call = <<>> /\ Len(call') > 0 /\ call'[1] = "get_last_open_time"

\* The open_times of the stored rows of a pair.
StoredTimes(st, symbol, interval) ==
  {t \in Grid(interval) : st[<<symbol, interval, t>>] > 0}

\* The latest of the stored open_times of a pair, as the returned sequence: empty
\* when the pair has no rows.
HighWaterMark(st, symbol, interval) ==
  LET S == StoredTimes(st, symbol, interval)
  IN IF S = {} THEN <<>> ELSE <<CHOOSE t \in S : \A u \in S : u <= t>>

\* C11: get_last_open_time returns the maximum open_time over the stored rows of
\* exactly the pair asked for, and none when the pair has no rows.
C11_HighWaterMark ==
  [][(LastOpenTimeStep /\ connTx # "inerror")
       => /\ res' = "returned"
          /\ ret' = HighWaterMark(store, call'[2], call'[3])]_vars

\* The step is a call of insert_price_data, or a call of get_historical_klines that
\* came to its INSERT, in which the storage layer raised.
PersistFailedStep ==
  /\ call = <<>>
  /\ Len(call') > 0
  /\ \/ call'[1] = "insert_price_data" /\ res' = "raised"
     \/ /\ call'[1] = "get_historical_klines"
        /\ call'[6]
        /\ call'[7] = "fault"
        /\ calledUpstream'

\* C12: when the storage layer raises during a batch insert no row of the batch is
\* committed, and the next cursor resolution on the shared connection succeeds.
C12_PersistFailureIsolated ==
  [][/\ PersistFailedStep => store' = store
     /\ (LastOpenTimeStep /\ connTx = "inerror")
          => /\ res' = "returned"
             /\ ret' = HighWaterMark(store, call'[2], call'[3])]_vars

\* The step starts a cycle of the scheduler after the sleep of the one before.
CycleStartStep == cpc = "sleeping" /\ cpc' = "loop"

\* C13: the symbols a cycle walks are those the exchange lists as tradable when the
\* cycle starts.
C13_ReEnumerated ==
  [][CycleStartStep => symbols' = get_all_symbols(listed)]_vars

\* C14: when the processing of a pair fails, the pair's stored rows and high-water
\* mark are as before the attempt and the scheduler stays in its loop, where the
\* next cycle asks for the pair again from the same start.
C14_RetrySameGap ==
  [][(PairStep /\ res' \in {"raised", "error_empty"})
       => /\ store' = store
          /\ HighWaterMark(store', symbols[pair[1]], IntervalList[pair[2]])
               = HighWaterMark(store, symbols[pair[1]], IntervalList[pair[2]])
          /\ cpc' = "loop"]_vars

\* C15: whatever cycles the scheduler ran and whatever calls of
\* get_historical_klines were made, no two rows of the store have the same symbol,
\* interval and open_time.
C15_KeyUnique ==
  \A symbol \in Symbols, interval \in Intervals :
    \A t \in Grid(interval) : store[<<symbol, interval, t>>] < 2

ShutDown == cpc \in {"stopped", "interrupted"}

\* C20: a shutdown signal ends the scheduler between two pairs, never inside the
\* processing of one; after it no pair is started and the store is as the last
\* completed pair left it.
C20_GracefulShutdown ==
  [][/\ (~ShutDown /\ ShutDown') => (cpc' = "stopped" /\ store' = store)
     /\ ShutDown => (pair' = pair /\ lastRequest' = lastRequest /\ store' = store)]_vars

\* C18: unless the process is shut down, every cycle the scheduler starts goes
\* through its pairs to the inter-cycle sleep and every sleep is followed by the
\* next cycle: the loop has no terminal state.
C18_LoopLive ==
  /\ [](cpc = "loop" => <>(cpc = "sleeping" \/ ShutDown))
  /\ [](cpc = "sleeping" => <>(cpc = "loop" \/ ShutDown))

\* C22: a collect_incremental call never takes the cache path and always asks
\* upstream, and the window it asks for holds no candle the pair has stored.
C22_SchedulerNeverHitsCache ==
  [][PairStep =>
       /\ res' # "hit"
       /\ calledUpstream'
       /\ lastRequest' # <<>>
       /\ \A t \in StoredTimes(store, symbols[pair[1]], IntervalList[pair[2]]) :
            t < lastRequest'[3]]_vars

\* C23: insert_price_data called with an empty batch sends no INSERT and no
\* commit, so the store and the transaction state of the connection stay as they
\* were, it raises nothing, and it returns the count 0.
C23_EmptyBatchNoOp ==
  [][(call' # <<>> /\ call'[1] = "insert_price_data" /\ call'[4] = <<>>)
       => /\ store' = store
          /\ connTx' = connTx
          /\ res' = "inserted"
          /\ returned' = <<0>>]_vars

====
